---- MODULE Spec2Model ----
(***************************************************************************)
(* A model of auto_logo_cropper/cli.py: the pure helpers (hex2rgb, is_hex, *)
(* parse_margin, resize_to_fit_bounding_box), the option validation of     *)
(* parse_args and the batch loop of main.                                  *)
(*                                                                         *)
(* Strings are sequences of one-character strings.  Python's None is the   *)
(* integer None (-1) where it shares a list with non-negative integers,    *)
(* and the sequence Absent (<<"None">>) where it stands for an option      *)
(* that was not given.  Results of calls that can raise are records        *)
(* [err, val]: err = "none" for a normal return, else the exception name.  *)
(***************************************************************************)
EXTENDS Integers, Sequences, FiniteSets, TLC

VARIABLES
  callee,      \* which pure function a helper-specification exercises
  input,       \* its argument(s)
  result,      \* its returned value, <<>> before the call
  argv,        \* the command line as argparse sees it
  fs,          \* the files on disk: path -> content
  pc,          \* position of main
  args,        \* the namespace parse_args returned
  dirCreated,  \* Path(args.output).mkdir has run
  idx,         \* position of the for loop in args.images
  state,       \* per input path: Pending, Decoded, Processed, Written, Skipped
  image,       \* the decoded image of the current iteration
  resized,     \* (rw, rh) of the current iteration
  final,       \* the composed image of the current iteration
  outDir,      \* the output directory: file name -> content
  saved        \* the sequence of file names final.save was called with

vars == <<callee, input, result, argv, fs, pc, args, dirCreated, idx, state,
          image, resized, final, outDir, saved>>

mainVars == <<argv, fs, pc, args, dirCreated, idx, state, image, resized,
              final, outDir, saved>>

helperVars == <<callee, input, result>>

----------------------------------------------------------------------------
(* Bounds *)

MaxDim == 15        \* image and box sides in the resize specification
MaxMarginLen == 7   \* characters of a --margin string
MaxHexLen == 7      \* characters of a --color / --background string
MaxCanvas == 6      \* |--width|, |--height| in the geometry specification
MaxCrop == 4        \* sides of the detected bounding box
MaxImages == 3      \* paths on the command line

----------------------------------------------------------------------------
(* Python values *)

None == -1

Absent == <<"None">>

Ok(v) == [err |-> "none", val |-> v]

Raise(e) == [err |-> e, val |-> <<>>]

abs(n) == IF n < 0 THEN -n ELSE n

Truthy(v) == v # None /\ v # 0

RECURSIVE Pow2(_)
Pow2(n) == IF n <= 0 THEN 1 ELSE 2 * Pow2(n - 1)

----------------------------------------------------------------------------
(* str.split(",") and int(): lines 24 *)

RECURSIVE split(_, _)
split(s, sep) ==
  IF \A i \in 1..Len(s) : s[i] # sep
  THEN <<s>>
  ELSE LET i == CHOOSE k \in 1..Len(s) :
                  s[k] = sep /\ \A j \in 1..(k - 1) : s[j] # sep
       IN  <<SubSeq(s, 1, i - 1)>> \o split(SubSeq(s, i + 1, Len(s)), sep)

DecDigits == {"0", "1", "2", "3", "4", "5", "6", "7", "8", "9"}

DecValue(c) ==
  CASE c = "0" -> 0 [] c = "1" -> 1 [] c = "2" -> 2 [] c = "3" -> 3
    [] c = "4" -> 4 [] c = "5" -> 5 [] c = "6" -> 6 [] c = "7" -> 7
    [] c = "8" -> 8 [] c = "9" -> 9

RECURSIVE DecNumber(_)
DecNumber(s) ==
  IF Len(s) = 0 THEN 0
  ELSE 10 * DecNumber(SubSeq(s, 1, Len(s) - 1)) + DecValue(s[Len(s)])

\* int(tok) for tokens over digits and "-": an optional sign and at least
\* one digit, anything else is a ValueError.
IsIntLiteral(tok) ==
  LET body == IF Len(tok) > 0 /\ tok[1] = "-" THEN Tail(tok) ELSE tok
  IN  Len(body) > 0 /\ \A i \in 1..Len(body) : body[i] \in DecDigits

int(tok) ==
  IF tok[1] = "-" THEN -DecNumber(Tail(tok)) ELSE DecNumber(tok)

----------------------------------------------------------------------------
(* parse_margin: lines 23-35 *)

parse_margin(margin) ==
  LET toks == split(margin, ",")
  IN  IF \E i \in 1..Len(toks) : ~IsIntLiteral(toks[i])
      THEN Raise("ValueError")
      ELSE LET padded == [i \in 1..Len(toks) |-> abs(int(toks[i]))]
                           \o <<None, None, None, None>>
               a == padded[1]
               b == padded[2]
               c == padded[3]
               d == padded[4]
           IN  IF Truthy(d) THEN Ok(<<a, b, c, d>>)
               ELSE IF Truthy(c) THEN Ok(<<a, b, c, b>>)
               ELSE IF Truthy(b) THEN Ok(<<a, b, a, b>>)
               ELSE IF Truthy(a) THEN Ok(<<a, a, a, a>>)
               ELSE Ok(<<0, 0, 0, 0>>)

----------------------------------------------------------------------------
(* is_hex and hex2rgb: lines 13-20 *)

HexDigits == DecDigits \cup {"a", "b", "c", "d", "e", "f",
                             "A", "B", "C", "D", "E", "F"}

HexValue(c) ==
  CASE c \in DecDigits -> DecValue(c)
    [] c \in {"a", "A"} -> 10 [] c \in {"b", "B"} -> 11
    [] c \in {"c", "C"} -> 12 [] c \in {"d", "D"} -> 13
    [] c \in {"e", "E"} -> 14 [] c \in {"f", "F"} -> 15

\* re.match("^[A-Fa-f0-9]{6}$", value): six hex digits from the start, then
\* the end of the string; "$" also matches just before one final newline.
is_hex(value) ==
  /\ Len(value) >= 6
  /\ \A i \in 1..6 : value[i] \in HexDigits
  /\ \/ Len(value) = 6
     \/ Len(value) = 7 /\ value[7] = "\n"

hex2rgb(hex) ==
  IF Len(hex) # 6
  THEN Raise("AssertionError")
  ELSE Ok([k \in 1..3 |-> 16 * HexValue(hex[2 * k - 1]) + HexValue(hex[2 * k])])

\* The treatment parse_args gives args.color and args.background (lines
\* 59-73): a falsy value (None or "") is left as it is.
color_option(value) ==
  IF value = Absent \/ Len(value) = 0
  THEN Ok(value)
  ELSE IF is_hex(value) THEN hex2rgb(value) ELSE Raise("ArgumentTypeError")

----------------------------------------------------------------------------
(* resize_to_fit_bounding_box: lines 91-111 *)

(* Python's / and * on int operands work on IEEE-754 doubles, rounding     *)
(* each result to the nearest 53-bit value, and int() truncates.           *)
(*                                                                         *)
(* FloatGreater(a, b, c, d) is a / b > c / d.  Division is correctly       *)
(* rounded and rounding is monotone, so equal quotients give equal doubles *)
(* and, for operands this small, different quotients different doubles.    *)
FloatGreater(a, b, c, d) == a * d > c * b

\* The largest e with 2^e <= x / y.
FloorLog2(x, y) ==
  IF x >= y
  THEN CHOOSE e \in 0..24 : y * Pow2(e) <= x /\ x < y * Pow2(e + 1)
  ELSE -(CHOOSE m \in 1..24 : x * Pow2(m) >= y /\ x * Pow2(m - 1) < y)

\* (x * 2^s) % y
RECURSIVE ShiftMod(_, _, _)
ShiftMod(x, s, y) ==
  IF s = 0 THEN x % y ELSE (2 * ShiftMod(x, s - 1, y)) % y

(* int(x / y * z).  q = fl(x / y) has 52 - e fraction bits below its       *)
(* leading one, e = FloorLog2(x, y), so q = x / y - R / (y * 2^(52 - e))   *)
(* when the remainder R = (x * 2^(52 - e)) % y is below y / 2 and q is     *)
(* above x / y otherwise.  When y does not divide x * z the product is     *)
(* further than the rounding error from an integer and truncation gives    *)
(* the exact floor.  When it does, n = x * z / y, the rounded product is   *)
(* below n exactly when q * z is below n by more than half the distance    *)
(* from n to the double before it: 2^(k - 54) for n = 2^k, 2^(k - 53) for  *)
(* 2^k < n < 2^(k + 1).                                                    *)
TruncMulDiv(x, y, z) ==
  IF (x * z) % y # 0
  THEN (x * z) \div y
  ELSE IF x * z = 0
  THEN 0
  ELSE LET n == (x * z) \div y
           e == FloorLog2(x, y)
           R == ShiftMod(x, 52 - e, y)
           k == FloorLog2(n, 1)
           h == (k - e - 1) - (IF n = Pow2(k) THEN 1 ELSE 0)
       IN  IF R # 0 /\ 2 * R < y /\ R * z * Pow2(-h) > y * Pow2(h)
           THEN n - 1
           ELSE n

resize_to_fit_bounding_box(img_width, img_height, bb_width, bb_height) ==
  IF FloatGreater(bb_width, bb_height, img_width, img_height)
  THEN <<TruncMulDiv(img_width, img_height, bb_height), bb_height>>
  ELSE <<bb_width, TruncMulDiv(img_height, img_width, bb_width)>>

----------------------------------------------------------------------------
(* parse_args: lines 38-88 *)

\* A slip in the assertions: equality passes.
MarginsFit_NonStrict(width, height, margin) ==
  /\ width >= margin[2] + margin[4]
  /\ height >= margin[1] + margin[3]

\* The two assertions of lines 80-86; margin is (top, right, bottom, left).
MarginsFit(width, height, margin) ==
  /\ width > margin[2] + margin[4]
  /\ height > margin[1] + margin[3]

parse_args(a) ==
  LET color == color_option(a.color)
      background == color_option(a.background)
      margin == parse_margin(a.margin)
  IN  IF color.err # "none" THEN Raise(color.err)
      ELSE IF background.err # "none" THEN Raise(background.err)
      ELSE IF margin.err # "none" THEN Raise(margin.err)
      ELSE IF ~MarginsFit(abs(a.width), abs(a.height), margin.val)
      THEN Raise("AssertionError")
      ELSE Ok([width |-> abs(a.width), height |-> abs(a.height),
               margin |-> margin.val, color |-> color.val,
               background |-> background.val, greyscale |-> a.greyscale,
               images |-> a.images])

\* "if args.color:" and "if args.background:" of lines 163 and 166: after
\* parse_args the option is None, "" or a list of three channels.
ColorGiven(c) == Len(c) = 3

----------------------------------------------------------------------------
(* Files and images *)

(* A path is <<directory, stem, suffix>>; Path(path).stem is its second    *)
(* component.  A file is a record: kind says what Image.open does with it  *)
(* ("missing": FileNotFoundError, "unidentified": UnidentifiedImageError,  *)
(* "directory": IsADirectoryError, "image": it decodes); an image has its  *)
(* size, the RGBA pixel at (3, 3), the box getbbox() finds in the image    *)
(* itself (alpha_bbox) and the box it finds in the difference with the     *)
(* posterized background (diff_bbox), <<>> when getbbox() returns None.    *)
File(kind, id, size, probe, alpha_bbox, diff_bbox) ==
  [kind |-> kind, id |-> id, size |-> size, probe |-> probe,
   alpha_bbox |-> alpha_bbox, diff_bbox |-> diff_bbox]

NoFile(kind) == File(kind, 0, <<0, 0>>, <<0, 0, 0, 0>>, <<>>, <<>>)

NoImage == NoFile("none")

stem(path) == path[2]

\* Lines 142-151: the pixel at (3, 3) exists only in an image of at least
\* 4 x 4 pixels; getpixel raises IndexError otherwise.
HasProbe(img) == img.size[1] >= 4 /\ img.size[2] >= 4

bounding_box(img) ==
  IF img.probe[4] = 0 THEN img.alpha_bbox ELSE img.diff_bbox

\* image.crop(bounding_box), line 153: crop(None) copies the whole image.
cropped(img) ==
  LET box == bounding_box(img)
  IN  IF box = <<>> THEN img.size
      ELSE <<box[3] - box[1], box[4] - box[2]>>

\* A slip in the offsets: centred on the canvas, the margins forgotten.
paste_at_NoMargin(cfg, rw, rh) ==
  <<(cfg.width - rw) \div 2, (cfg.height - rh) \div 2>>

\* The position logo_layer.paste is given, lines 176-183.
paste_at(cfg, rw, rh) ==
  LET top == cfg.margin[1]
      right == cfg.margin[2]
      bottom == cfg.margin[3]
      left == cfg.margin[4]
  IN  <<left + (cfg.width - left - right - rw) \div 2,
        top + (cfg.height - top - bottom - rh) \div 2>>

\* Lines 155-189 for one decoded image: the scaled size, and the composed
\* image or the exception that ends the run.  Image.resize raises ValueError
\* for a side below 1.
process(img, cfg) ==
  IF ~HasProbe(img)
  THEN [err |-> "IndexError", resized |-> <<>>, final |-> <<>>]
  ELSE
    LET top == cfg.margin[1]
        right == cfg.margin[2]
        bottom == cfg.margin[3]
        left == cfg.margin[4]
        size == cropped(img)
        r == resize_to_fit_bounding_box(size[1], size[2],
                                        cfg.width - left - right,
                                        cfg.height - top - bottom)
        rw == r[1]
        rh == r[2]
        background_color ==
          IF ColorGiven(cfg.background) THEN cfg.background \o <<255>>
          ELSE img.probe
    IN  IF rw < 1 \/ rh < 1
        THEN [err |-> "ValueError", resized |-> r, final |-> <<>>]
        ELSE [err |-> "none", resized |-> r,
              final |->
                [mode |-> IF cfg.greyscale THEN "LA" ELSE "RGBA",
                 size |-> <<cfg.width, cfg.height>>,
                 background |-> background_color,
                 at |-> paste_at(cfg, rw, rh),
                 logo |-> r,
                 color |-> IF ColorGiven(cfg.color) THEN cfg.color ELSE <<>>,
                 pixels |-> <<img.id, bounding_box(img)>>]]

----------------------------------------------------------------------------
(* main: lines 114-191 *)

ParseArgs ==
  /\ pc = "parse_args"
  /\ LET r == parse_args(argv)
     IN  IF r.err = "none"
         THEN args' = r.val /\ pc' = "mkdir"
         ELSE args' = args /\ pc' = "aborted"
  /\ UNCHANGED <<argv, fs, dirCreated, idx, state, image, resized, final,
                 outDir, saved>>
  /\ UNCHANGED helperVars

Mkdir ==
  /\ pc = "mkdir"
  /\ dirCreated' = TRUE
  /\ idx' = 1
  /\ pc' = "loop"
  /\ UNCHANGED <<argv, fs, args, state, image, resized, final, outDir, saved>>
  /\ UNCHANGED helperVars

\* Lines 126-140: Image.open(path).convert("RGBA") and its two handlers.
Open ==
  /\ pc = "loop"
  /\ idx <= Len(args.images)
  /\ LET file == fs[args.images[idx]]
     IN  CASE file.kind = "image" ->
                /\ image' = file
                /\ state' = [state EXCEPT ![idx] = "Decoded"]
                /\ pc' = "decoded"
                /\ idx' = idx
           [] file.kind \in {"missing", "unidentified"} ->
                /\ image' = NoImage
                /\ state' = [state EXCEPT ![idx] = "Skipped"]
                /\ pc' = "loop"
                /\ idx' = idx + 1
           [] OTHER ->
                /\ image' = NoImage
                /\ state' = state
                /\ pc' = "crashed"
                /\ idx' = idx
  /\ UNCHANGED <<argv, fs, args, dirCreated, resized, final, outDir, saved>>
  /\ UNCHANGED helperVars

\* Lines 142-189.
Process ==
  /\ pc = "decoded"
  /\ LET r == process(image, args)
     IN  /\ resized' = r.resized
         /\ final' = r.final
         /\ IF r.err = "none"
            THEN state' = [state EXCEPT ![idx] = "Processed"] /\ pc' = "processed"
            ELSE state' = state /\ pc' = "crashed"
  /\ UNCHANGED <<argv, fs, args, dirCreated, idx, image, outDir, saved>>
  /\ UNCHANGED helperVars

\* Line 191: final.save(f"./{args.output}/{Path(path).stem}.png") replaces a
\* file of that name.
Save ==
  /\ pc = "processed"
  /\ LET name == stem(args.images[idx])
     IN  /\ outDir' = {f \in outDir : f.name # name}
                        \cup {[name |-> name, content |-> final]}
         /\ saved' = Append(saved, name)
  /\ state' = [state EXCEPT ![idx] = "Written"]
  /\ idx' = idx + 1
  /\ pc' = "loop"
  /\ UNCHANGED <<argv, fs, args, dirCreated, image, resized, final>>
  /\ UNCHANGED helperVars

Finish ==
  /\ pc = "loop"
  /\ idx > Len(args.images)
  /\ pc' = "done"
  /\ UNCHANGED <<argv, fs, args, dirCreated, idx, state, image, resized,
                 final, outDir, saved>>
  /\ UNCHANGED helperVars

Next == ParseArgs \/ Mkdir \/ Open \/ Process \/ Save \/ Finish

\* The for loop of lines 125-191 as a function of the list it iterates: the
\* directory it leaves behind, starting from dir.
RECURSIVE run_forward(_, _, _, _)
run_forward(paths, cfg, disk, dir) ==
  IF paths = <<>> THEN dir
  ELSE LET file == disk[Head(paths)]
           r == process(file, cfg)
       IN  CASE file.kind \in {"missing", "unidentified"} ->
                  run_forward(Tail(paths), cfg, disk, dir)
             [] file.kind = "image" /\ r.err = "none" ->
                  run_forward(Tail(paths), cfg, disk,
                              {f \in dir : f.name # stem(Head(paths))}
                                \cup {[name |-> stem(Head(paths)),
                                       content |-> r.final]})
             [] OTHER -> dir

----------------------------------------------------------------------------
(* Initial states *)

Pending == [err |-> "pending", val |-> <<>>]

Strings(alphabet, n) == UNION {[1..k -> alphabet] : k \in 0..n}

DistinctLists(S, n) ==
  {l \in UNION {[1..k -> S] : k \in 1..n} :
     \A i, j \in 1..Len(l) : i # j => l[i] # l[j]}

HelperIdle == callee = "main" /\ input = <<>> /\ result = Pending

MainIdle ==
  /\ argv = <<>> /\ fs = <<>> /\ pc = "idle" /\ args = <<>>
  /\ dirCreated = FALSE /\ idx = 0 /\ state = <<>> /\ image = NoImage
  /\ resized = <<>> /\ final = <<>> /\ outDir = {} /\ saved = <<>>

MainStart ==
  /\ pc = "parse_args" /\ args = <<>> /\ dirCreated = FALSE /\ idx = 0
  /\ state = [k \in 1..Len(argv.images) |-> "Pending"]
  /\ image = NoImage /\ resized = <<>> /\ final = <<>>
  /\ outDir = {} /\ saved = <<>>

White == <<255, 255, 255, 255>>

Clear == <<0, 0, 0, 0>>

PathLogoA == <<"a", "logo", ".png">>
PathLogoB == <<"b", "logo", ".jpg">>
PathIcon == <<"a", "icon", ".png">>
PathGone == <<"a", "gone", ".png">>
PathNotes == <<"a", "notes", ".txt">>
PathDir == <<"a", "dir", "">>

AllPaths == <<PathLogoA, PathLogoB, PathIcon, PathGone, PathNotes, PathDir>>

Paths == {AllPaths[k] : k \in 1..Len(AllPaths)}

Disk ==
  [p \in Paths |->
     CASE p = PathLogoA -> File("image", 1, <<8, 8>>, White, <<>>, <<4, 4, 6, 6>>)
       [] p = PathLogoB -> File("image", 2, <<8, 6>>, Clear, <<4, 4, 6, 5>>, <<>>)
       [] p = PathIcon -> File("image", 3, <<3, 3>>, Clear, <<1, 1, 2, 2>>, <<>>)
       [] p = PathGone -> NoFile("missing")
       [] p = PathNotes -> NoFile("unidentified")
       [] p = PathDir -> NoFile("directory")]

MainMargins ==
  {<<>>, <<"0">>, <<"1">>, <<"1", ",", "0">>,
   <<"0", ",", "1", ",", "0", ",", "2">>}

MainColors == {Absent, <<>>, <<"F", "0", "a", "0", "0", "9">>,
               <<"g", "0", "0", "0", "0", "0">>}

MainBackgrounds == {Absent, <<"0", "0", "f", "f", "0", "0">>,
                    <<"1", "2", "3", "4", "5">>}

\* argparse has parsed the integers and rejects --greyscale with --color.
Init ==
  /\ HelperIdle
  /\ fs = Disk
  /\ argv \in [width : {-3, 0, 2}, height : {1, 3}, margin : MainMargins,
               color : MainColors, background : MainBackgrounds,
               greyscale : BOOLEAN, images : DistinctLists(Paths, MaxImages)]
  /\ argv.greyscale => argv.color = Absent
  /\ MainStart

Spec == Init /\ [][Next]_vars

GeomPath == <<"a", "mark", ".png">>

GeomFiles ==
  {File("image", 1, <<cw + 4, ch + 4>>, White, <<>>, <<4, 4, 4 + cw, 4 + ch>>) :
     cw \in 1..MaxCrop, ch \in 1..MaxCrop}
    \cup {File("image", 2, <<MaxCrop + 4, MaxCrop + 4>>, Clear, <<>>, <<>>),
          File("image", 3, <<3, 3>>, Clear, <<>>, <<>>),
          NoFile("missing"), NoFile("directory")}

GeomMargins ==
  {<<t, ",", r, ",", b, ",", l>> : t \in {"0", "1", "2"}, r \in {"0", "1", "2"},
                                   b \in {"0", "1", "2"}, l \in {"0", "1", "2"}}

InitGeom ==
  /\ HelperIdle
  /\ fs \in [{GeomPath} -> GeomFiles]
  /\ argv \in [width : 1..MaxCanvas, height : 1..MaxCanvas,
               margin : GeomMargins, color : {Absent}, background : {Absent},
               greyscale : {FALSE}, images : {<<GeomPath>>}]
  /\ MainStart

SpecGeom == InitGeom /\ [][Next]_vars

MarginAlphabet == {"0", "1", "2", "-", ","}

InitMargin ==
  /\ callee = "parse_margin"
  /\ input \in Strings(MarginAlphabet, MaxMarginLen)
  /\ result = Pending
  /\ MainIdle

CallParseMargin ==
  /\ callee = "parse_margin"
  /\ result = Pending
  /\ result' = parse_margin(input)
  /\ UNCHANGED <<callee, input>>
  /\ UNCHANGED mainVars

SpecMargin == InitMargin /\ [][CallParseMargin]_vars

HexAlphabet == {"0", "9", "c", "F", "g", "\n"}

InitColor ==
  /\ callee = "color_option"
  /\ input \in Strings(HexAlphabet, MaxHexLen) \cup {Absent}
  /\ result = Pending
  /\ MainIdle

CallColorOption ==
  /\ callee = "color_option"
  /\ result = Pending
  /\ result' = color_option(input)
  /\ UNCHANGED <<callee, input>>
  /\ UNCHANGED mainVars

SpecColor == InitColor /\ [][CallColorOption]_vars

InitResize ==
  /\ callee = "resize_to_fit_bounding_box"
  /\ input \in (1..MaxDim) \X (1..MaxDim) \X (1..MaxDim) \X (1..MaxDim)
  /\ result = Pending
  /\ MainIdle

CallResize ==
  /\ callee = "resize_to_fit_bounding_box"
  /\ result = Pending
  /\ result' = Ok(resize_to_fit_bounding_box(input[1], input[2],
                                             input[3], input[4]))
  /\ UNCHANGED <<callee, input>>
  /\ UNCHANGED mainVars

SpecResize == InitResize /\ [][CallResize]_vars

----------------------------------------------------------------------------
(* Properties *)

Called == result # Pending

\* C1: for positive sides, resize_to_fit_bounding_box returns a size within
\* the box; the side the ratio comparison picks equals the box side and the
\* other is the floor of the proportional value.
C1_ResizeFloor ==
  (callee = "resize_to_fit_bounding_box" /\ Called) =>
    LET w == input[1]
        h == input[2]
        bw == input[3]
        bh == input[4]
        nw == result.val[1]
        nh == result.val[2]
    IN  /\ nw <= bw
        /\ nh <= bh
        /\ IF bw * h > w * bh
           THEN nh = bh /\ nw = (w * bh) \div h
           ELSE nw = bw /\ nh = (h * bw) \div w

\* The values of a margin string that is 1 to 4 comma-separated integers.
MarginValues(margin) ==
  LET toks == split(margin, ",")
  IN  [i \in 1..Len(toks) |-> abs(int(toks[i]))]

IsMarginList(margin) ==
  LET toks == split(margin, ",")
  IN  Len(toks) \in 1..4 /\ \A i \in 1..Len(toks) : IsIntLiteral(toks[i])

\* C2: parse_margin broadcasts by the number of values, zeros included:
\* 1 -> (v1,v1,v1,v1), 2 -> (v1,v2,v1,v2), 3 -> (v1,v2,v3,v2),
\* 4 -> (v1,v2,v3,v4), each value replaced by its absolute value.
C2_Broadcast ==
  (callee = "parse_margin" /\ Called /\ IsMarginList(input)) =>
    LET v == MarginValues(input)
    IN  result = Ok(CASE Len(v) = 1 -> <<v[1], v[1], v[1], v[1]>>
                      [] Len(v) = 2 -> <<v[1], v[2], v[1], v[2]>>
                      [] Len(v) = 3 -> <<v[1], v[2], v[3], v[2]>>
                      [] Len(v) = 4 -> <<v[1], v[2], v[3], v[4]>>)

\* C3: parse_margin of the empty string returns [0,0,0,0] and raises nothing.
C3_EmptyMargin ==
  (callee = "parse_margin" /\ Called /\ input = <<>>) =>
    result = Ok(<<0, 0, 0, 0>>)

\* C8: a supplied --color / --background value is accepted exactly when it
\* is six hexadecimal digits, and then becomes three channels in 0..255;
\* every other supplied value, the empty string included, is a fatal error.
C8_HexOrFatal ==
  (callee = "color_option" /\ Called /\ input # Absent) =>
    IF Len(input) = 6 /\ \A i \in 1..6 : input[i] \in HexDigits
    THEN /\ result.err = "none"
         /\ Len(result.val) = 3
         /\ \A k \in 1..3 : result.val[k] \in 0..255
    ELSE result.err # "none"

Validated == pc \in {"mkdir", "loop", "decoded", "processed", "done", "crashed"}

Touched ==
  \/ dirCreated
  \/ \E k \in DOMAIN state : state[k] # "Pending"
  \/ outDir # {}
  \/ saved # <<>>

\* C4: the output directory is created and an input is decoded or written
\* only under a config with width > left + right and height > top + bottom
\* (so both are positive and the inner box has sides >= 1); a command line
\* whose normalized values fail that aborts with nothing created or touched.
C4_ValidationGatesEffects ==
  /\ Touched =>
       /\ Validated
       /\ args.width > args.margin[2] + args.margin[4]
       /\ args.height > args.margin[1] + args.margin[3]
       /\ args.width > 0 /\ args.height > 0
       /\ args.width - args.margin[4] - args.margin[2] >= 1
       /\ args.height - args.margin[1] - args.margin[3] >= 1
  /\ pc = "aborted" => ~Touched
  /\ (pc \notin {"idle", "parse_args"} /\ parse_margin(argv.margin).err = "none") =>
       LET m == parse_margin(argv.margin).val
       IN  (\/ abs(argv.width) <= m[2] + m[4]
            \/ abs(argv.height) <= m[1] + m[3]) => pc = "aborted"

C4_Witness ==
  /\ pc = "aborted"
  /\ color_option(argv.color).err = "none"
  /\ color_option(argv.background).err = "none"
  /\ parse_margin(argv.margin).err = "none"
  /\ abs(argv.width) > 0
  /\ abs(argv.width) = parse_margin(argv.margin).val[2]
                         + parse_margin(argv.margin).val[4]

Ended == pc \in {"done", "crashed"}

\* C5: no input's failure stops the batch: once the loop has ended, the run
\* has ended normally and every path is Written or Skipped.
C5_PerFileIsolation ==
  Ended => /\ pc = "done"
           /\ \A k \in DOMAIN state : state[k] \in {"Written", "Skipped"}

\* C6: after a run over distinct paths the output directory holds one file
\* per input that reached Written, and no save of the run replaced the file
\* of another input.
C6_OneFilePerInput ==
  Ended =>
    /\ Cardinality(outDir) = Cardinality({k \in DOMAIN state : state[k] = "Written"})
    /\ \A i, j \in 1..Len(saved) : i # j => saved[i] # saved[j]

InOrderOf(order, list) ==
  SelectSeq(order, LAMBDA p : \E k \in 1..Len(list) : list[k] = p)

\* C7: whatever the order the paths are processed in, the output directory
\* ends with the files and contents the forward iteration over the same set
\* of paths leaves.
C7_OrderIndependent ==
  Ended => outDir = run_forward(InOrderOf(AllPaths, argv.images), args, fs, {})

\* C9: the pasted foreground stays between the margins on both axes and the
\* far gap exceeds the near gap by 0 or 1.
C9_Placement ==
  pc = "processed" =>
    LET top == args.margin[1]
        right == args.margin[2]
        bottom == args.margin[3]
        left == args.margin[4]
        rw == resized[1]
        rh == resized[2]
        x == final.at[1]
        y == final.at[2]
    IN  /\ left <= x
        /\ x + rw <= args.width - right
        /\ (args.width - right - (x + rw)) - (x - left) \in {0, 1}
        /\ top <= y
        /\ y + rh <= args.height - bottom
        /\ (args.height - bottom - (y + rh)) - (y - top) \in {0, 1}

C9_Witness ==
  /\ pc = "processed"
  /\ args.margin[4] > 0 /\ args.margin[4] # args.margin[2]
  /\ args.margin[1] > 0
  /\ (args.width - args.margin[4] - args.margin[2] - resized[1]) % 2 = 1
  /\ final.at[1] > args.margin[4]

\* C10: under a validated config a cropped foreground of at least 1 x 1 is
\* scaled to a size of at least 1 x 1, and its image is composed, not failed.
C10_ScaledAtLeastOne ==
  (Validated /\ Len(resized) = 2) =>
    /\ resized[1] >= 1
    /\ resized[2] >= 1
    /\ pc # "crashed"

====
